---- MODULE Spec2Model ----
(***************************************************************************)
(* Model of the transaction-interpretation routine of the Solana MCP       *)
(* server (src/src/index.ts): extractRelevantTxData and the account-key    *)
(* resolution it performs.                                                 *)
(*                                                                         *)
(* JavaScript values are modelled as tagged records:                       *)
(*   Null, Undefined            the two absent values                      *)
(*   Num(n)                     an integer number                          *)
(*   Str(d)                     a string of decimal digits d               *)
(*   Text(s)                    any other string s                         *)
(*   Arr(s)                     an array with items s                      *)
(*   Key(a)                     a PublicKey whose base58 form is a         *)
(*   Dec(n, e)                  the number n / 10^e, in lowest terms of 10 *)
(*   NaN                        the number NaN                             *)
(***************************************************************************)
EXTENDS Integers, Sequences, FiniteSets, TLC

VARIABLES
    tx, walletAddress,  \* the arguments of the current call of the routine
    pc,                 \* "ready" before the call, "done" after it
    locals,             \* the locals the last call left
    result,             \* what the last call ended in
    history             \* the calls made so far: arguments, result, record after

VARIABLES
    request,            \* the tool-call request being handled: name and arguments
    hpc,                \* where its handler stands: "idle", "received",
                        \* "awaitSignatures", "awaitAll", "awaitCoral", "done"
    sigs,               \* the signatures getSignaturesForAddress returned
    fetches,            \* per signature, the state of its getTransaction call
    completion,         \* the positions of the fetches, in the order they settled
    issued,             \* the RPC and HTTP calls issued so far, in order
    extractCalls,       \* the records passed to extractRelevantTxData, in order
    forwarded,          \* the tool handlers the request was forwarded to
    thrown,             \* the message of the error raised while handling, if any
    response            \* what the request handler's promise settled with

extractVars == <<tx, walletAddress, pc, locals, result, history>>

toolVars == <<request, hpc, sigs, fetches, completion, issued, extractCalls,
              forwarded, thrown, response>>

vars == <<extractVars, toolVars>>

(***************************************************************************)
(* Bounds of the model.                                                    *)
(***************************************************************************)
MaxStatic == 2      \* longest statically-embedded address list
MaxLoaded == 1      \* most addresses loaded from lookup tables
MaxInstr  == 2      \* most compiled instructions in a message
MaxTok    == 2      \* longest token-balance list
MaxCalls  == 3      \* most calls of the routine in a row
MaxSigs   == 2      \* most signatures getSignaturesForAddress returns

(***************************************************************************)
(* Program constants.                                                      *)
(***************************************************************************)
NativeDecimals == 9                     \* the 1e9 divisor of the native path
SolSentinel    == "SOL"
SolscanPrefix  == "https://solscan.io/tx/"

(***************************************************************************)
(* JavaScript values.                                                      *)
(***************************************************************************)
Null      == [kind |-> "null"]
Undefined == [kind |-> "undefined"]
NaN       == [kind |-> "NaN"]
Num(n)    == [kind |-> "num", n |-> n]
Str(d)    == [kind |-> "string", digits |-> d]
Arr(s)    == [kind |-> "array", items |-> s]
Text(s)   == [kind |-> "text", s |-> s]
Key(a)    == [kind |-> "PublicKey", b58 |-> a]
Bool(b)   == [kind |-> "bool", b |-> b]

Absent(v) == v = Null \/ v = Undefined

\* JavaScript truthiness of the values the routine tests.
Truthy(v) == ~Absent(v) /\ v # NaN /\ v # Num(0) /\ v # Str(<<>>)

\* a || b
Or(a, b) == IF Truthy(a) THEN a ELSE b

\* o?.field on a record o that may be absent
Opt(o, field) == IF Absent(o) THEN Undefined ELSE o[field]

RECURSIVE Pow10(_)
Pow10(e) == IF e = 0 THEN 1 ELSE 10 * Pow10(e - 1)

\* The number n / 10^e, written with the fewest decimals.
RECURSIVE Dec(_, _)
Dec(n, e) ==
    IF e > 0 /\ n % 10 = 0
    THEN Dec(n \div 10, e - 1)
    ELSE [kind |-> "decimal", num |-> n, exp |-> e]

\* Number(s) of a string of decimal digits; Number("") is 0.
RECURSIVE Number(_)
Number(s) ==
    IF s.digits = <<>> THEN 0
    ELSE 10 * Number(Str(SubSeq(s.digits, 1, Len(s.digits) - 1)))
         + s.digits[Len(s.digits)]

\* array[i] with a zero-based index; undefined outside the array.
ArrayGet(a, i) ==
    IF i >= 0 /\ i < Len(a.items) THEN Num(a.items[i + 1]) ELSE Undefined

\* key.toBase58()
toBase58(key) == key.b58

(***************************************************************************)
(* MessageAccountKeys of @solana/web3.js, as the routine uses it: the key  *)
(* segments in order (static keys, then keys loaded from lookup tables),   *)
(* get(index) walking the segments, length the total.                      *)
(***************************************************************************)
MessageAccountKeys(staticAccountKeys, accountKeysFromLookups) ==
    [kind |-> "MessageAccountKeys",
     keySegments |-> <<staticAccountKeys, accountKeysFromLookups>>]

RECURSIVE SegmentsGet(_, _)
SegmentsGet(segments, index) ==
    IF segments = <<>> THEN Undefined
    ELSE IF index < Len(Head(segments)) THEN Head(segments)[index + 1]
    ELSE SegmentsGet(Tail(segments), index - Len(Head(segments)))

KeysGet(accountKeys, index) ==
    IF index < 0 THEN Undefined ELSE SegmentsGet(accountKeys.keySegments, index)

RECURSIVE SegmentsLength(_)
SegmentsLength(segments) ==
    IF segments = <<>> THEN 0
    ELSE Len(Head(segments)) + SegmentsLength(Tail(segments))

KeysLength(accountKeys) == SegmentsLength(accountKeys.keySegments)

\* The flat list of keys an accountKeys object holds.
KeysList(accountKeys) ==
    [i \in 1..KeysLength(accountKeys) |-> KeysGet(accountKeys, i - 1)]

\* message.getAccountKeys(): the static keys followed by the keys loaded
\* from lookup tables, or an error when the lookups cannot be resolved.
getAccountKeys(message) ==
    IF message.resolvable
    THEN [threw |-> FALSE,
          value |-> MessageAccountKeys(message.staticAccountKeys.items,
                                       message.accountKeysFromLookups)]
    ELSE [threw |-> TRUE, value |-> Undefined]

(***************************************************************************)
(* extractRelevantTxData, step by step.                                    *)
(***************************************************************************)

\* As find, returning the last entry of the owner (findLast).
findLast(list, wallet) ==
    IF \E i \in 1..Len(list.items) : list.items[i].owner = wallet
    THEN list.items[CHOOSE i \in 1..Len(list.items) :
                        /\ list.items[i].owner = wallet
                        /\ \A j \in (i + 1)..Len(list.items) :
                              list.items[j].owner # wallet]
    ELSE Undefined

\* Array.prototype.find((b) => b.owner === walletAddress)
find(list, wallet) ==
    IF \E i \in 1..Len(list.items) : list.items[i].owner = wallet
    THEN list.items[CHOOSE i \in 1..Len(list.items) :
                        /\ list.items[i].owner = wallet
                        /\ \A j \in 1..(i - 1) : list.items[j].owner # wallet]
    ELSE Undefined

\* As matchTokenBalances, with the two matches kept in variables that
\* outlive the call: without both lists the previous call's matches stay.
matchTokenBalancesStale(meta, wallet) ==
    IF Truthy(meta) /\ Truthy(meta.preTokenBalances) /\ Truthy(meta.postTokenBalances)
    THEN [preTokenBalance  |-> find(meta.preTokenBalances, wallet),
          postTokenBalance |-> find(meta.postTokenBalances, wallet)]
    ELSE IF "preTokenBalance" \in DOMAIN locals
    THEN [preTokenBalance  |-> locals.preTokenBalance,
          postTokenBalance |-> locals.postTokenBalance]
    ELSE [preTokenBalance |-> Null, postTokenBalance |-> Null]

\* Token-balance matching.
matchTokenBalances(meta, wallet) ==
    IF Truthy(meta) /\ Truthy(meta.preTokenBalances) /\ Truthy(meta.postTokenBalances)
    THEN [preTokenBalance  |-> find(meta.preTokenBalances, wallet),
          postTokenBalance |-> find(meta.postTokenBalances, wallet)]
    ELSE [preTokenBalance |-> Null, postTokenBalance |-> Null]

\* The try block: transaction.message?.getAccountKeys() || new MessageAccountKeys([])
tryGetAccountKeys(transaction) ==
    IF Absent(transaction.message)
    THEN [threw |-> FALSE, value |-> MessageAccountKeys(<<>>, <<>>)]
    ELSE getAccountKeys(transaction.message)

\* As staticFallback, but the fallback list is always empty.
staticFallbackEmpty(transaction) == MessageAccountKeys(<<>>, <<>>)

\* The catch block: new MessageAccountKeys(transaction.message?.staticAccountKeys || [])
staticFallback(transaction) ==
    MessageAccountKeys(
        Or(Opt(transaction.message, "staticAccountKeys"), Arr(<<>>)).items, <<>>)

\* As resolveAccountKeys, without the try/catch around getAccountKeys.
resolveAccountKeysNoCatch(transaction) ==
    LET attempt == tryGetAccountKeys(transaction)
    IN  IF attempt.threw
        THEN [threw |-> TRUE, variant |-> "none",
              accountKeys |-> MessageAccountKeys(<<>>, <<>>)]
        ELSE [threw |-> FALSE, variant |-> "full", accountKeys |-> attempt.value]

\* Address resolution: full resolution, and on an error the static list.
resolveAccountKeys(transaction) ==
    LET attempt == tryGetAccountKeys(transaction)
    IN  IF attempt.threw
        THEN [threw |-> FALSE, variant |-> "static",
              accountKeys |-> staticFallback(transaction)]
        ELSE [threw |-> FALSE, variant |-> "full", accountKeys |-> attempt.value]

\* As findAccountIndex, without the break: the last matching index wins.
findAccountIndexLast(accountKeys, wallet) ==
    LET hit(i) == LET key == KeysGet(accountKeys, i)
                  IN  Truthy(key) /\ toBase58(key) = wallet
        n == KeysLength(accountKeys)
    IN  IF \E i \in 0..(n - 1) : hit(i)
        THEN CHOOSE i \in 0..(n - 1) : hit(i) /\ \A j \in (i + 1)..(n - 1) : ~hit(j)
        ELSE -1

\* The scan for the target: first index whose key is the wallet, else -1.
findAccountIndex(accountKeys, wallet) ==
    LET hit(i) == LET key == KeysGet(accountKeys, i)
                  IN  Truthy(key) /\ toBase58(key) = wallet
        n == KeysLength(accountKeys)
    IN  IF \E i \in 0..(n - 1) : hit(i)
        THEN CHOOSE i \in 0..(n - 1) : hit(i) /\ \A j \in 0..(i - 1) : ~hit(j)
        ELSE -1

\* As nativeBalances, reading the balance arrays one position too far.
nativeBalancesOffByOne(meta, accountKeys, wallet) ==
    IF Truthy(meta)
    THEN LET accountIndex == findAccountIndex(accountKeys, wallet)
         IN  IF /\ accountIndex # -1
                /\ Truthy(meta.preBalances)
                /\ Truthy(meta.postBalances)
             THEN [accountIndex |-> accountIndex,
                   preBalance   |-> ArrayGet(meta.preBalances, accountIndex + 1),
                   postBalance  |-> ArrayGet(meta.postBalances, accountIndex + 1)]
             ELSE [accountIndex |-> accountIndex,
                   preBalance |-> Null, postBalance |-> Null]
    ELSE [accountIndex |-> -1, preBalance |-> Null, postBalance |-> Null]

\* Native-balance lookup.
nativeBalances(meta, accountKeys, wallet) ==
    IF Truthy(meta)
    THEN LET accountIndex == findAccountIndex(accountKeys, wallet)
         IN  IF /\ accountIndex # -1
                /\ Truthy(meta.preBalances)
                /\ Truthy(meta.postBalances)
             THEN [accountIndex |-> accountIndex,
                   preBalance   |-> ArrayGet(meta.preBalances, accountIndex),
                   postBalance  |-> ArrayGet(meta.postBalances, accountIndex)]
             ELSE [accountIndex |-> accountIndex,
                   preBalance |-> Null, postBalance |-> Null]
    ELSE [accountIndex |-> -1, preBalance |-> Null, postBalance |-> Null]

\* As firstMultiAccount, without the break: the last such instruction wins.
RECURSIVE lastMultiAccount(_)
lastMultiAccount(instructions) ==
    IF instructions = <<>> THEN Undefined
    ELSE LET ix   == Head(instructions)
             rest == lastMultiAccount(Tail(instructions))
         IN  IF rest # Undefined THEN rest
             ELSE IF ~Absent(ix.accountKeyIndexes) /\ Len(ix.accountKeyIndexes.items) > 1
             THEN ix
             ELSE Undefined

\* The first instruction, in order, with more than one account index.
RECURSIVE firstMultiAccount(_)
firstMultiAccount(instructions) ==
    IF instructions = <<>> THEN Undefined
    ELSE LET ix == Head(instructions)
         IN  IF ~Absent(ix.accountKeyIndexes) /\ Len(ix.accountKeyIndexes.items) > 1
             THEN ix
             ELSE firstMultiAccount(Tail(instructions))

\* As counterparties, guarded by accountKeys alone: the sender is read
\* from the resolved list even when the message is absent.
counterpartiesNoMessageGuard(transaction, accountKeys) ==
    LET compiledInstructions ==
            Or(Opt(transaction.message, "compiledInstructions"), Arr(<<>>))
        ix == firstMultiAccount(compiledInstructions.items)
    IN  [sender   |-> KeysGet(accountKeys, 0),
         receiver |-> IF ix = Undefined THEN Null
                      ELSE KeysGet(accountKeys, ix.accountKeyIndexes.items[2])]

\* Counterparty heuristic.
counterparties(transaction, accountKeys) ==
    IF Truthy(transaction.message)
    THEN LET compiledInstructions ==
                 Or(transaction.message.compiledInstructions, Arr(<<>>))
             ix == firstMultiAccount(compiledInstructions.items)
         IN  [sender   |-> KeysGet(accountKeys, 0),
              receiver |-> IF ix = Undefined THEN Null
                           ELSE KeysGet(accountKeys, ix.accountKeyIndexes.items[2])]
    ELSE [sender |-> Null, receiver |-> Null]

\* As tokenAmount, with the decimals read from the post entry.
tokenAmountPostDecimals(preTokenBalance, postTokenBalance) ==
    LET pre  == Number(Or(Opt(Opt(preTokenBalance, "uiTokenAmount"), "amount"),
                          Str(<<0>>)))
        post == Number(Or(Opt(Opt(postTokenBalance, "uiTokenAmount"), "amount"),
                          Str(<<0>>)))
        decimals == Or(Opt(Opt(postTokenBalance, "uiTokenAmount"), "decimals"),
                       Num(0)).n
    IN  Dec(post - pre, decimals)

\* (post - pre) / 10 ** decimals of the token path.
tokenAmount(preTokenBalance, postTokenBalance) ==
    LET pre  == Number(Or(Opt(Opt(preTokenBalance, "uiTokenAmount"), "amount"),
                          Str(<<0>>)))
        post == Number(Or(Opt(Opt(postTokenBalance, "uiTokenAmount"), "amount"),
                          Str(<<0>>)))
        decimals == Or(Opt(Opt(preTokenBalance, "uiTokenAmount"), "decimals"),
                       Num(0)).n
    IN  Dec(post - pre, decimals)

\* As nativeAmount, with the difference taken in absolute value.
nativeAmountAbs(preBalance, postBalance) ==
    IF preBalance = Undefined \/ postBalance = Undefined
    THEN NaN
    ELSE IF postBalance.n >= preBalance.n
    THEN Dec(postBalance.n - preBalance.n, NativeDecimals)
    ELSE Dec(preBalance.n - postBalance.n, NativeDecimals)

\* (postBalance - preBalance) / 1e9 of the native path.
nativeAmount(preBalance, postBalance) ==
    IF preBalance = Undefined \/ postBalance = Undefined
    THEN NaN
    ELSE Dec(postBalance.n - preBalance.n, NativeDecimals)

\* As selectAmount, with the native balances tried before the token entries.
selectAmountNativeFirst(preTokenBalance, postTokenBalance, preBalance, postBalance) ==
    IF preBalance # Null /\ postBalance # Null
    THEN [path |-> "native",
          amount |-> nativeAmount(preBalance, postBalance),
          tokenMint |-> Text(SolSentinel)]
    ELSE IF Truthy(preTokenBalance) /\ Truthy(postTokenBalance)
    THEN [path |-> "token",
          amount |-> tokenAmount(preTokenBalance, postTokenBalance),
          tokenMint |-> preTokenBalance.mint]
    ELSE [path |-> "none", amount |-> Null, tokenMint |-> Null]

\* As selectAmount, with the token path taken once the pre entry alone is
\* matched.
selectAmountPreOnly(preTokenBalance, postTokenBalance, preBalance, postBalance) ==
    IF Truthy(preTokenBalance)
    THEN [path |-> "token",
          amount |-> tokenAmount(preTokenBalance, postTokenBalance),
          tokenMint |-> preTokenBalance.mint]
    ELSE IF preBalance # Null /\ postBalance # Null
    THEN [path |-> "native",
          amount |-> nativeAmount(preBalance, postBalance),
          tokenMint |-> Text(SolSentinel)]
    ELSE [path |-> "none", amount |-> Null, tokenMint |-> Null]

\* Amount and asset selection.
selectAmount(preTokenBalance, postTokenBalance, preBalance, postBalance) ==
    IF Truthy(preTokenBalance) /\ Truthy(postTokenBalance)
    THEN [path |-> "token",
          amount |-> tokenAmount(preTokenBalance, postTokenBalance),
          tokenMint |-> preTokenBalance.mint]
    ELSE IF preBalance # Null /\ postBalance # Null
    THEN [path |-> "native",
          amount |-> nativeAmount(preBalance, postBalance),
          tokenMint |-> Text(SolSentinel)]
    ELSE [path |-> "none", amount |-> Null, tokenMint |-> Null]

\* The civil date of a day number counted from 1970-01-01 (proleptic
\* Gregorian calendar, as Date uses).
CivilFromDays(days) ==
    LET z   == days + 719468
        era == z \div 146097
        doe == z - era * 146097
        yoe == (doe - doe \div 1460 + doe \div 36524 - doe \div 146096) \div 365
        doy == doe - (365 * yoe + yoe \div 4 - yoe \div 100)
        mp  == (5 * doy + 2) \div 153
        d   == doy - (153 * mp + 2) \div 5 + 1
        m   == IF mp < 10 THEN mp + 3 ELSE mp - 9
        y   == yoe + era * 400 + (IF m <= 2 THEN 1 ELSE 0)
    IN  [year |-> y, month |-> m, day |-> d]

\* new Date(ms).toISOString(): the fields of "YYYY-MM-DDTHH:mm:ss.sssZ".
toISOString(ms) ==
    LET date  == CivilFromDays(ms \div 86400000)
        inDay == ms % 86400000
    IN  [kind   |-> "isoString",
         year   |-> date.year, month |-> date.month, day |-> date.day,
         hour   |-> inDay \div 3600000,
         minute |-> (inDay % 3600000) \div 60000,
         second |-> (inDay % 60000) \div 1000,
         milli  |-> inDay % 1000]

\* blockTime ? new Date(blockTime * 1000).toISOString() : null
dateOf(blockTime) ==
    IF Truthy(blockTime) THEN toISOString(blockTime.n * 1000) ELSE Null

\* `https://solscan.io/tx/${signature}`
solscanUrlOf(signature) == <<SolscanPrefix, signature>>

\* Every local of one call of extractRelevantTxData on a present record.
extractLocals(t, wallet) ==
    LET tok      == matchTokenBalances(t.meta, wallet)
        resolved == resolveAccountKeys(t.transaction)
        native   == nativeBalances(t.meta, resolved.accountKeys, wallet)
        parties  == counterparties(t.transaction, resolved.accountKeys)
        chosen   == selectAmount(tok.preTokenBalance, tok.postTokenBalance,
                                 native.preBalance, native.postBalance)
    IN  [threw            |-> resolved.threw,
         signature        |-> t.transaction.signatures[1],
         preTokenBalance  |-> tok.preTokenBalance,
         postTokenBalance |-> tok.postTokenBalance,
         variant          |-> resolved.variant,
         accountKeys      |-> resolved.accountKeys,
         accountIndex     |-> native.accountIndex,
         preBalance       |-> native.preBalance,
         postBalance      |-> native.postBalance,
         sender           |-> parties.sender,
         receiver         |-> parties.receiver,
         path             |-> chosen.path,
         amount           |-> chosen.amount,
         tokenMint        |-> chosen.tokenMint]

\* As summaryOf, with the date filled in only when metadata is present.
summaryOfDateNeedsMeta(t, l) ==
    [signature  |-> l.signature,
     solscanUrl |-> solscanUrlOf(l.signature),
     date       |-> IF Truthy(t.meta) THEN dateOf(t.blockTime) ELSE Null,
     sender     |-> l.sender,
     receiver   |-> l.receiver,
     amount     |-> l.amount,
     tokenMint  |-> l.tokenMint,
     slot       |-> t.slot]

\* The summary object the routine returns.
summaryOf(t, l) ==
    [signature  |-> l.signature,
     solscanUrl |-> solscanUrlOf(l.signature),
     date       |-> dateOf(t.blockTime),
     sender     |-> l.sender,
     receiver   |-> l.receiver,
     amount     |-> l.amount,
     tokenMint  |-> l.tokenMint,
     slot       |-> t.slot]

Return(v) == [outcome |-> "return", value |-> v]
Throw     == [outcome |-> "throw"]

NoLocals == [threw |-> FALSE]

\* As extractRelevantTxData, without the guard on an absent record: reading
\* a property of null raises a TypeError.
extractRelevantTxDataNoGuard(t, wallet) ==
    IF ~Truthy(t) THEN Throw
    ELSE LET l == extractLocals(t, wallet)
         IN  IF l.threw THEN Throw ELSE Return(summaryOf(t, l))

\* extractRelevantTxData(tx, walletAddress): what the call ends in.
extractRelevantTxData(t, wallet) ==
    IF ~Truthy(t) THEN Return(Null)
    ELSE LET l == extractLocals(t, wallet)
         IN  IF l.threw THEN Throw ELSE Return(summaryOf(t, l))


(***************************************************************************)
(* The records the routine is called on.                                   *)
(***************************************************************************)
Addr == {"A", "B"}
Keys == {Key(a) : a \in Addr}

SeqsUpTo(S, n) == UNION {[1..k -> S] : k \in 0..n}

Ix(accountKeyIndexes) == [accountKeyIndexes |-> accountKeyIndexes]

\* A message: its static keys, the keys its lookup tables load (after the
\* static ones in the ledger's account list), whether getAccountKeys can
\* resolve them, and its compiled instructions.
Msg(static, loaded, resolvable, instructions) ==
    [staticAccountKeys      |-> static,
     accountKeysFromLookups |-> loaded,
     resolvable             |-> resolvable,
     compiledInstructions   |-> instructions]

\* The ledger's account list of a message: the one the balances follow.
LedgerAccounts(message) ==
    IF Absent(message) THEN <<>>
    ELSE Or(message.staticAccountKeys, Arr(<<>>)).items
         \o message.accountKeysFromLookups

Tx(slot, blockTime, signatures, message, meta) ==
    [slot |-> slot, blockTime |-> blockTime,
     transaction |-> [signatures |-> signatures, message |-> message],
     meta |-> meta]

Meta(preBalances, postBalances, preTokenBalances, postTokenBalances) ==
    [preBalances |-> preBalances, postBalances |-> postBalances,
     preTokenBalances |-> preTokenBalances,
     postTokenBalances |-> postTokenBalances]

TokenBalance(owner, mint, uiTokenAmount) ==
    [owner |-> owner, mint |-> mint, uiTokenAmount |-> uiTokenAmount]

Ui(amount, decimals) == [amount |-> amount, decimals |-> decimals]

IxSet ==
    {Ix(Undefined), Ix(Arr(<<>>)), Ix(Arr(<<0>>)), Ix(Arr(<<0, 1>>)),
     Ix(Arr(<<1, 0>>)), Ix(Arr(<<1, 2, 0>>)), Ix(Arr(<<0, 3>>))}

InstructionLists ==
    {Undefined} \cup {Arr(s) : s \in SeqsUpTo(IxSet, MaxInstr)}

MessagesWith(instructionLists) ==
    {Msg(Arr(s), l, r, c) :
        s \in SeqsUpTo(Keys, MaxStatic), l \in SeqsUpTo(Keys, MaxLoaded),
        r \in BOOLEAN, c \in instructionLists}
    \cup
    {Msg(Undefined, l, FALSE, c) :
        l \in SeqsUpTo(Keys, MaxLoaded), c \in instructionLists}

\* Native balances, one per ledger account (lamports).
LamportsPerSol == 1000000000
Flat(n, v) == [i \in 1..n |-> v]
Ramp(n)    == [i \in 1..n |-> i * 100000000]
Down(n)    == [i \in 1..n |-> 2 * LamportsPerSol - i * 100000000]

PreBalanceChoices(n) ==
    {Undefined, Arr(Flat(n, LamportsPerSol)), Arr(Flat(n, 2 * LamportsPerSol)), Arr(Ramp(n))}
PostBalanceChoices(n) ==
    {Undefined, Arr(Flat(n, LamportsPerSol)), Arr(Ramp(n)), Arr(Down(n))}

Digits1000000 == <<1, 0, 0, 0, 0, 0, 0>>
Digits1500000 == <<1, 5, 0, 0, 0, 0, 0>>

UiSet ==
    {Undefined, Ui(Undefined, Undefined), Ui(Str(<<>>), Num(0)),
     Ui(Str(Digits1000000), Num(6)), Ui(Str(Digits1500000), Num(6)),
     Ui(Str(<<0>>), Num(6)), Ui(Str(<<2, 5>>), Undefined),
     Ui(Str(<<7>>), Num(2))}

Mints == {Text("M1"), Text("M2")}

\* Entries of the list-shaped inputs: the mint fixes the sub-balance.
ListEntries ==
    {TokenBalance(o, Text("M1"), Ui(Str(Digits1000000), Num(6))) : o \in Addr}
    \cup
    {TokenBalance(o, Text("M2"), Ui(Str(Digits1500000), Num(6))) : o \in Addr}

TokenLists == {Undefined} \cup {Arr(s) : s \in SeqsUpTo(ListEntries, MaxTok)}

Sig1 == Text("sig1")
Sig2 == Text("sig2")

PlainMsg == Msg(Arr(<<Key("A"), Key("B")>>), <<>>, TRUE,
                Arr(<<Ix(Arr(<<0, 1>>))>>))

NativeMetas(message) ==
    LET n == Len(LedgerAccounts(message))
    IN  {Meta(pre, post, Undefined, Undefined) :
            pre \in PreBalanceChoices(n), post \in PostBalanceChoices(n)}

\* Records rich in addressing and native balances.
InputsResolution ==
    UNION {{Tx(7, Num(1), <<Sig1>>, m, meta) :
                meta \in {Null} \cup NativeMetas(m)} :
           m \in {Undefined}
                 \cup MessagesWith({Undefined, Arr(<<Ix(Arr(<<0, 1>>))>>)})}

\* Records rich in instructions.
InputsInstructions ==
    {Tx(7, Num(1), <<Sig1>>, Msg(Arr(s), <<Key("A")>>, r, c), Null) :
        s \in {<<Key("A"), Key("B")>>, <<Key("B")>>},
        r \in BOOLEAN, c \in InstructionLists}

\* Records rich in the shape of the token-balance lists.
InputsTokenLists ==
    {Tx(7, Num(1), <<Sig1>>, PlainMsg, Meta(b[1], b[2], pre, post)) :
        b \in {<<Undefined, Undefined>>,
               <<Arr(Ramp(2)), Arr(Flat(2, LamportsPerSol))>>},
        pre \in TokenLists, post \in TokenLists}

\* Records rich in the sub-balances of the matched token entries.
InputsTokenAmounts ==
    {Tx(7, Num(1), <<Sig1>>, PlainMsg,
        Meta(Arr(Ramp(2)), Arr(Ramp(2)),
             Arr(<<TokenBalance("A", m, u)>>),
             Arr(<<TokenBalance("A", Text("M1"), v)>>))) :
        m \in Mints, u \in UiSet, v \in UiSet}

\* Records rich in identifiers.
InputsHeader ==
    {Tx(slot, blockTime, signatures, m, Null) :
        slot \in {7, 8},
        blockTime \in {Null, Num(0), Num(1), Num(86400), Num(2000000)},
        signatures \in {<<Sig1>>, <<Sig2, Sig1>>}, m \in {Undefined, PlainMsg}}

\* Records without an addressing section, with metadata of every shape.
InputsNoMessage ==
    {Tx(7, Num(1), <<Sig1>>, Undefined, Meta(pre, post, tokens[1], tokens[2])) :
        pre \in PreBalanceChoices(2), post \in PostBalanceChoices(2),
        tokens \in {<<Undefined, Undefined>>,
                    <<Arr(<<TokenBalance("A", Text("M1"),
                                         Ui(Str(Digits1000000), Num(6)))>>),
                      Arr(<<>>)>>}}

Inputs ==
    {Null} \cup InputsResolution \cup InputsInstructions
    \cup InputsTokenLists \cup InputsTokenAmounts \cup InputsHeader
    \cup InputsNoMessage

(***************************************************************************)
(* The state machine: one call of the routine on one record.               *)
(***************************************************************************)
\* No tool-call request is being handled.
ToolIdle ==
    /\ request = Undefined
    /\ hpc = "idle"
    /\ sigs = <<>>
    /\ fetches = <<>>
    /\ completion = <<>>
    /\ issued = <<>>
    /\ extractCalls = <<>>
    /\ forwarded = <<>>
    /\ thrown = <<>>
    /\ response = Undefined

Init ==
    /\ tx \in Inputs
    /\ walletAddress \in Addr
    /\ pc = "ready"
    /\ locals = NoLocals
    /\ result = Undefined
    /\ history = <<>>
    /\ ToolIdle

\* One call of extractRelevantTxData(tx, walletAddress). The routine only
\* reads its arguments: the record is the same after the call.
Call ==
    /\ pc = "ready"
    /\ pc' = "done"
    /\ locals' = IF Truthy(tx) THEN extractLocals(tx, walletAddress) ELSE NoLocals
    /\ result' = extractRelevantTxData(tx, walletAddress)
    /\ UNCHANGED <<tx, walletAddress>>
    /\ history' = Append(history, [tx |-> tx, walletAddress |-> walletAddress,
                                   result |-> result', txAfter |-> tx'])
    /\ UNCHANGED toolVars

Next == Call

Spec == Init /\ [][Next]_vars

(***************************************************************************)
(* The routine called again and again, as transactions.map(...) and        *)
(* successive tool calls do.                                               *)
(***************************************************************************)
RepeatInputs ==
    {Null,
     Tx(7, Num(1), <<Sig1>>, PlainMsg,
        Meta(Arr(Ramp(2)), Arr(Down(2)),
             Arr(<<TokenBalance("A", Text("M1"), Ui(Str(Digits1000000), Num(6)))>>),
             Arr(<<TokenBalance("A", Text("M1"), Ui(Str(Digits1500000), Num(6)))>>))),
     Tx(8, Num(86400), <<Sig2>>, PlainMsg,
        Meta(Arr(Ramp(2)), Arr(Down(2)), Undefined, Undefined)),
     Tx(8, Null, <<Sig2, Sig1>>,
        Msg(Arr(<<Key("B")>>), <<Key("A")>>, FALSE, Undefined), Null)}

InitRepeat ==
    /\ tx \in RepeatInputs
    /\ walletAddress \in Addr
    /\ pc = "ready"
    /\ locals = NoLocals
    /\ result = Undefined
    /\ history = <<>>
    /\ ToolIdle

\* The caller passes the next record to the routine.
Again ==
    /\ pc = "done"
    /\ Len(history) < MaxCalls
    /\ tx' \in RepeatInputs
    /\ walletAddress' \in Addr
    /\ pc' = "ready"
    /\ UNCHANGED <<locals, result, history>>
    /\ UNCHANGED toolVars

NextRepeat == Call \/ Again

SpecRepeat == InitRepeat /\ [][NextRepeat]_vars

(***************************************************************************)
(* The tool-call request handler and the two tool handlers behind it.      *)
(***************************************************************************)
SchemaMinLength == 42       \* walletAddress: z.string().min(42, ...)
SchemaMaxLength == 44       \* walletAddress: z.string().max(44, ...)
DefaultLimit    == 100      \* limit: z.number().optional().default(100)

True == Bool(TRUE)

SolanaToolName == "fetch_solana_transactions"

\* The six names of the coralTools list of the request handler.
coralTools ==
    <<"create_coral_session", "list_coral_sessions", "create_coral_thread",
      "send_coral_message", "discover_coral_agents", "advertise_solana_agent">>

Includes(list, x) == \E i \in 1..Len(list) : list[i] = x

\* The wallet strings a request carries.  Each stands for a longer string,
\* described by its length and by whether it is the base58 form of 32 bytes.
\* "A" and "B" are addresses; "K32" is the 32-character address of a key with
\* leading zero bytes; "X44" has an address's length but holds a character
\* outside the base58 alphabet; "L45" is one character too long.
WalletStrings == {"A", "B", "K32", "X44", "L45"}

StringLength(s) ==
    CASE s = "A"   -> 44
      [] s = "B"   -> 43
      [] s = "K32" -> 32
      [] s = "X44" -> 44
      [] s = "L45" -> 45

IsBase58Key(s) == s \in {"A", "B", "K32"}

\* new PublicKey(value): decodes base58 and raises unless it yields 32 bytes.
newPublicKey(s) ==
    IF IsBase58Key(s)
    THEN [outcome |-> "return", value |-> Key(s)]
    ELSE [outcome |-> "throw",  value |-> <<"Invalid public key input">>]

\* The string part of the schema without its lower length bound.
walletStringOkNoMin(w) ==
    /\ w.kind = "text"
    /\ StringLength(w.s) <= SchemaMaxLength

\* z.string().min(42).max(44)
walletStringOk(w) ==
    /\ w.kind = "text"
    /\ StringLength(w.s) >= SchemaMinLength
    /\ StringLength(w.s) <= SchemaMaxLength

\* z.number().optional(): undefined or a number.
limitOk(l) == l = Undefined \/ (l # Null /\ l.kind = "num")

\* FetchSolanaTransactionsArgsSchema.safeParse(args)
safeParseFetchArgs(args) ==
    IF /\ ~Absent(args)
       /\ ~Absent(args.walletAddress)
       /\ walletStringOk(args.walletAddress)
       /\ limitOk(args.limit)
    THEN [success |-> TRUE,
          data |-> [walletAddress |-> args.walletAddress.s,
                    limit |-> IF args.limit = Undefined THEN DefaultLimit
                              ELSE args.limit.n]]
    ELSE [success |-> FALSE, data |-> Undefined]

\* The messages of the errors the handlers raise, as the pieces their
\* template strings join.
InvalidArguments(name) == <<"Invalid arguments for ", name, ": ", "ZodError">>
FailedToFetch(msg)     == <<"Failed to fetch Solana transactions: ">> \o msg
UnknownTool(name)      == <<"Unknown tool: ", name>>

CoralFailurePrefix(name) ==
    CASE name = "create_coral_session"   -> "Failed to create Coral session: "
      [] name = "list_coral_sessions"    -> "Failed to list Coral sessions: "
      [] name = "create_coral_thread"    -> "Failed to create Coral thread: "
      [] name = "send_coral_message"     -> "Failed to send Coral message: "
      [] name = "discover_coral_agents"  -> "Failed to discover Coral agents: "
      [] name = "advertise_solana_agent" -> "Failed to advertise Solana agent: "

CoralFailed(name, msg) == <<CoralFailurePrefix(name)>> \o msg

\* The tools of handleCoralTool that validate their arguments before the call.
CoralToolsWithSchema ==
    {"create_coral_session", "create_coral_thread",
     "send_coral_message", "discover_coral_agents"}

\* makeRequest raises this when the HTTP response is not ok.
CoralApiError == <<"Coral Protocol API error: ", "500">>
RpcError      == <<"429 Too Many Requests">>

\* JSON.stringify of one field value: a key is written as its base58 string
\* (PublicKey.toJSON) and NaN as null.
JsonValue(v) ==
    IF v = NaN THEN Null
    ELSE IF v.kind = "PublicKey" THEN Text(toBase58(v))
    ELSE v

TaggedFields == {"signature", "date", "sender", "receiver", "amount", "tokenMint"}

\* JSON.stringify of a summary: a property that is undefined is left out.
JsonObject(o) ==
    [f \in {g \in DOMAIN o : g \in TaggedFields => o[g] # Undefined} |->
        IF f \in TaggedFields THEN JsonValue(o[f]) ELSE o[f]]

\* JSON.stringify(relevantTxs, null, 2): an absent entry is written as null.
JSONstringify(list) ==
    [kind  |-> "json",
     items |-> [i \in 1..Len(list) |->
                   IF Absent(list[i]) THEN Text("null") ELSE JsonObject(list[i])]]

\* The record the ledger holds for each signature.
SigNames == {"sig1", "sig2", "sig3"}

LedgerRecord(sig) ==
    CASE sig = "sig1" ->
            Tx(7, Num(1), <<Text("sig1")>>, PlainMsg,
               Meta(Arr(Ramp(2)), Arr(Down(2)),
                    Arr(<<TokenBalance("A", Text("M1"), Ui(Str(Digits1000000), Num(6)))>>),
                    Arr(<<TokenBalance("A", Text("M1"), Ui(Str(Digits1500000), Num(6)))>>)))
      [] sig = "sig2" ->
            Tx(8, Num(86400), <<Text("sig2")>>, PlainMsg,
               Meta(Arr(Ramp(2)), Arr(Down(2)), Undefined, Undefined))
      [] sig = "sig3" ->
            Tx(9, Null, <<Text("sig3"), Text("sig1")>>,
               Msg(Arr(<<Key("B")>>), <<Key("A")>>, FALSE, Undefined), Null)

Min(a, b) == IF a < b THEN a ELSE b

Distinct(s) == \A i, j \in 1..Len(s) : i # j => s[i] # s[j]

\* What getSignaturesForAddress(pubkey, { limit }) can return: at most limit
\* signatures, no signature twice.
SignatureLists(limit) ==
    {s \in SeqsUpTo(SigNames, Min(limit, MaxSigs)) : Distinct(s)}

Pending      == [state |-> "pending",   value |-> Undefined]
Fulfilled(v) == [state |-> "fulfilled", value |-> v]
Rejected     == [state |-> "rejected",  value |-> Undefined]

\* The values of the fulfilled fetches, in the order of their signatures.
Values(fs) == [i \in 1..Len(fs) |-> fs[i].value]

\* As promiseAll, with the values gathered in the order the fetches settled.
promiseAllAsSettled(fs, order) == [k \in 1..Len(order) |-> fs[order[k]].value]

\* What Promise.all fulfils with once every promise has: the value of each
\* promise at the position of that promise, whatever order they settled in.
promiseAll(fs, order) == Values(fs)

NotAbsent(v) == ~Absent(v)

\* transactions.map((tx) => extractRelevantTxData(tx, walletAddress)): the
\* outcome of each call, in order.
mapExtract(transactions, wallet) ==
    [i \in 1..Len(transactions) |-> extractRelevantTxData(transactions[i], wallet)]

\* The values the calls returned, in order.
Returned(calls) ==
    [i \in 1..Len(calls) |->
        IF calls[i].outcome = "throw" THEN Undefined ELSE calls[i].value]

Summaries(transactions, calls, relevantTxs) ==
    [transactions |-> transactions,
     threw        |-> \E i \in 1..Len(calls) : calls[i].outcome = "throw",
     relevantTxs  |-> relevantTxs]

\* The .filter(Boolean) that follows the map.
filterSummaries(transactions, calls) ==
    Summaries(transactions, calls, SelectSeq(Returned(calls), NotAbsent))

keepSummaries(transactions, calls) ==
    Summaries(transactions, calls, Returned(calls))

\* As presentSummaries, without the two filters.
presentSummariesUnfiltered(results, wallet) ==
    keepSummaries(results, mapExtract(results, wallet))

\* What handleSolanaTool makes of the results of Promise.all:
\*   transactions = results.filter((tx) => tx)
\*   relevantTxs  = transactions.map(extractRelevantTxData).filter(Boolean)
presentSummaries(results, wallet) ==
    filterSummaries(SelectSeq(results, Truthy),
                    mapExtract(SelectSeq(results, Truthy), wallet))

\* The result a tool handler returns.
ToolResult(text, transactions) ==
    [kind |-> "result", isError |-> Undefined, text |-> text,
     transactions |-> transactions]

ErrorPrefix == "(x) Error: "    \* (x) stands for the cross mark U+274C of the source

\* As errorResult, without the catch of the request handler: the error
\* leaves the handler and its promise rejects.
errorResultNoCatch(msg) ==
    [kind |-> "rejected", isError |-> Undefined,
     text |-> [kind |-> "message", parts |-> msg],
     transactions |-> Undefined]

\* The catch of the request handler: the error becomes a result.
errorResult(msg) ==
    [kind |-> "result", isError |-> True,
     text |-> [kind |-> "message", parts |-> <<ErrorPrefix>> \o msg],
     transactions |-> Undefined]

CoralSuccessText(name) == [kind |-> "message", parts |-> <<"OK: ", name>>]

\* The requests a client sends.
WalletArgs == {Undefined, Num(5)} \cup {Text(s) : s \in WalletStrings}
LimitArgs  == {Undefined, Null, Num(1), Num(2), Text("ten")}

FetchArgs ==
    {Undefined} \cup
    {[walletAddress |-> w, limit |-> l] : w \in WalletArgs, l \in LimitArgs}

CoralArgs == {[valid |-> v] : v \in BOOLEAN}

UnknownNames == {"get_balance", "create_coral_agent"}

Requests ==
    {[name |-> SolanaToolName, args |-> a] : a \in FetchArgs}
    \cup {[name |-> coralTools[i], args |-> a] : i \in 1..Len(coralTools), a \in CoralArgs}
    \cup {[name |-> n, args |-> Undefined] : n \in UnknownNames}

InitTool ==
    /\ tx = Null
    /\ walletAddress = "A"
    /\ pc = "idle"
    /\ locals = NoLocals
    /\ result = Undefined
    /\ history = <<>>
    /\ request \in Requests
    /\ hpc = "received"
    /\ sigs = <<>>
    /\ fetches = <<>>
    /\ completion = <<>>
    /\ issued = <<>>
    /\ extractCalls = <<>>
    /\ forwarded = <<>>
    /\ thrown = <<>>
    /\ response = Undefined

Parsed == safeParseFetchArgs(request.args)

\* An error raised while handling reaches the catch of the request handler.
Caught(msg) ==
    /\ thrown' = msg
    /\ response' = errorResult(msg)
    /\ hpc' = "done"

\* The request names no tool: raised by the request handler itself.
UnknownToolCall ==
    /\ hpc = "received"
    /\ request.name # SolanaToolName
    /\ ~Includes(coralTools, request.name)
    /\ Caught(UnknownTool(request.name))
    /\ UNCHANGED <<request, sigs, fetches, issued, extractCalls, forwarded>>
    /\ UNCHANGED extractVars
    /\ UNCHANGED completion

\* handleSolanaTool: the arguments fail the schema.
SolanaInvalidArgs ==
    /\ hpc = "received"
    /\ request.name = SolanaToolName
    /\ ~Parsed.success
    /\ forwarded' = Append(forwarded, "handleSolanaTool")
    /\ Caught(InvalidArguments(request.name))
    /\ UNCHANGED <<request, sigs, fetches, issued, extractCalls>>
    /\ UNCHANGED extractVars
    /\ UNCHANGED completion

\* handleSolanaTool: new PublicKey(walletAddress) raises inside the try.
SolanaInvalidKey ==
    /\ hpc = "received"
    /\ request.name = SolanaToolName
    /\ Parsed.success
    /\ newPublicKey(Parsed.data.walletAddress).outcome = "throw"
    /\ forwarded' = Append(forwarded, "handleSolanaTool")
    /\ Caught(FailedToFetch(newPublicKey(Parsed.data.walletAddress).value))
    /\ UNCHANGED <<request, sigs, fetches, issued, extractCalls>>
    /\ UNCHANGED extractVars
    /\ UNCHANGED completion

\* handleSolanaTool up to its first await: getSignaturesForAddress is called.
SolanaStart ==
    /\ hpc = "received"
    /\ request.name = SolanaToolName
    /\ Parsed.success
    /\ newPublicKey(Parsed.data.walletAddress).outcome = "return"
    /\ forwarded' = Append(forwarded, "handleSolanaTool")
    /\ issued' = Append(issued,
                        [call  |-> "getSignaturesForAddress",
                         arg   |-> Parsed.data.walletAddress,
                         limit |-> Parsed.data.limit])
    /\ hpc' = "awaitSignatures"
    /\ UNCHANGED <<request, sigs, fetches, extractCalls, thrown, response>>
    /\ UNCHANGED extractVars
    /\ UNCHANGED completion

\* The rest of handleSolanaTool once every fetch has a value: the summaries
\* are returned, or an error raised by the routine is caught and raised anew.
Finish(p) ==
    /\ extractCalls' = extractCalls \o p.transactions
    /\ IF p.threw
       THEN Caught(FailedToFetch(<<"TypeError">>))
       ELSE /\ response' = ToolResult(JSONstringify(p.relevantTxs), Arr(p.relevantTxs))
            /\ hpc' = "done"
            /\ UNCHANGED thrown

Present(results) == Finish(presentSummaries(results, Parsed.data.walletAddress))

\* getSignaturesForAddress fulfils; one getTransaction per signature is
\* called before anything is awaited.
SignaturesResolve ==
    /\ hpc = "awaitSignatures"
    /\ \E list \in SignatureLists(Parsed.data.limit) :
          /\ sigs' = list
          /\ issued' = issued \o [i \in 1..Len(list) |->
                                     [call  |-> "getTransaction",
                                      arg   |-> list[i],
                                      limit |-> 0]]
          /\ fetches' = [i \in 1..Len(list) |-> Pending]
          /\ IF list = <<>>
             THEN Present(<<>>)
             ELSE /\ hpc' = "awaitAll"
                  /\ UNCHANGED <<extractCalls, thrown, response>>
    /\ UNCHANGED <<request, forwarded>>
    /\ UNCHANGED extractVars
    /\ UNCHANGED completion

\* getSignaturesForAddress rejects.
SignaturesReject ==
    /\ hpc = "awaitSignatures"
    /\ Caught(FailedToFetch(RpcError))
    /\ UNCHANGED <<request, sigs, fetches, issued, extractCalls, forwarded>>
    /\ UNCHANGED extractVars
    /\ UNCHANGED completion

\* One getTransaction fulfils, with the record or with null.  Promise.all
\* fulfils with the last of them.
FetchFulfil ==
    /\ hpc = "awaitAll"
    /\ \E i \in 1..Len(fetches) :
          /\ fetches[i] = Pending
          /\ completion' = Append(completion, i)
          /\ \E v \in {LedgerRecord(sigs[i]), Null} :
                /\ fetches' = [fetches EXCEPT ![i] = Fulfilled(v)]
                /\ IF \A j \in 1..Len(fetches) : fetches'[j].state = "fulfilled"
                   THEN Present(promiseAll(fetches', completion'))
                   ELSE UNCHANGED <<hpc, extractCalls, thrown, response>>
    /\ UNCHANGED <<request, sigs, issued, forwarded>>
    /\ UNCHANGED extractVars

\* One getTransaction rejects: Promise.all rejects with it at once.
FetchReject ==
    /\ hpc = "awaitAll"
    /\ \E i \in 1..Len(fetches) :
          /\ fetches[i] = Pending
          /\ fetches' = [fetches EXCEPT ![i] = Rejected]
          /\ completion' = Append(completion, i)
    /\ Caught(FailedToFetch(RpcError))
    /\ UNCHANGED <<request, sigs, issued, extractCalls, forwarded>>
    /\ UNCHANGED extractVars

\* handleCoralTool: the arguments fail the tool's schema.
CoralInvalidArgs ==
    /\ hpc = "received"
    /\ Includes(coralTools, request.name)
    /\ request.name \in CoralToolsWithSchema
    /\ ~request.args.valid
    /\ forwarded' = Append(forwarded, "handleCoralTool")
    /\ Caught(InvalidArguments(request.name))
    /\ UNCHANGED <<request, sigs, fetches, issued, extractCalls>>
    /\ UNCHANGED extractVars
    /\ UNCHANGED completion

\* handleCoralTool up to its await: the client's request is sent.
CoralStart ==
    /\ hpc = "received"
    /\ Includes(coralTools, request.name)
    /\ request.name \in CoralToolsWithSchema => request.args.valid
    /\ forwarded' = Append(forwarded, "handleCoralTool")
    /\ issued' = Append(issued, [call |-> "makeRequest", arg |-> request.name,
                                 limit |-> 0])
    /\ hpc' = "awaitCoral"
    /\ UNCHANGED <<request, sigs, fetches, extractCalls, thrown, response>>
    /\ UNCHANGED extractVars
    /\ UNCHANGED completion

\* The client's request settles: with a usable body, with a body the handler
\* cannot read, or with a response that is not ok.
CoralSettle ==
    /\ hpc = "awaitCoral"
    /\ \E outcome \in {"ok", "malformed", "notOk"} :
          CASE outcome = "ok" ->
                  /\ response' = ToolResult(CoralSuccessText(request.name), Undefined)
                  /\ hpc' = "done"
                  /\ UNCHANGED thrown
            [] outcome = "malformed" ->
                  Caught(CoralFailed(request.name, <<"TypeError">>))
            [] outcome = "notOk" ->
                  Caught(CoralFailed(request.name, CoralApiError))
    /\ UNCHANGED <<request, sigs, fetches, issued, extractCalls, forwarded>>
    /\ UNCHANGED extractVars
    /\ UNCHANGED completion

NextTool ==
    \/ UnknownToolCall
    \/ SolanaInvalidArgs
    \/ SolanaInvalidKey
    \/ SolanaStart
    \/ SignaturesResolve
    \/ SignaturesReject
    \/ FetchFulfil
    \/ FetchReject
    \/ CoralInvalidArgs
    \/ CoralStart
    \/ CoralSettle

SpecTool == InitTool /\ [][NextTool]_vars

(***************************************************************************)
(* Properties.                                                             *)
(***************************************************************************)
Done    == pc = "done"
Called  == pc = "done" /\ ~Absent(tx)
Summary == result.value
Message == tx.transaction.message

SummaryFields ==
    {"signature", "solscanUrl", "date", "sender", "receiver", "amount",
     "tokenMint", "slot"}

\* The statically-embedded address list of the record (empty if absent).
StaticList ==
    IF Absent(Message) \/ Absent(Message.staticAccountKeys) THEN <<>>
    ELSE Message.staticAccountKeys.items

\* The address list the call resolved.
ResolvedList == KeysList(locals.accountKeys)

\* Full resolution raised for the record.
ResolutionRaised == ~Absent(Message) /\ ~Message.resolvable

\* C1: for every target address, a call on an absent transaction record
\* returns null and raises no error.
C1_AbsentReturnsNull ==
    (Done /\ Absent(tx)) => result = Return(Null)

C1_Witness == Done /\ tx = Null /\ walletAddress = "B" /\ result = Return(Null)

\* C2: the routine is total: on every record of its domain (absent, or
\* present with each optional part present or absent and address resolution
\* succeeding or raising) the call returns null or a summary and no
\* exception reaches the caller.
C2_Total ==
    Done =>
        /\ result.outcome = "return"
        /\ (Absent(tx) => Summary = Null)
        /\ (~Absent(tx) => DOMAIN Summary = SummaryFields)

C2_Witness ==
    /\ Called
    /\ ResolutionRaised
    /\ Absent(Message.staticAccountKeys)
    /\ Absent(Message.compiledInstructions)
    /\ Absent(tx.meta)
    /\ result.outcome = "return"

\* C3: when full resolution raises, the resolved list is exactly the
\* statically-embedded list (empty if that list is absent), and the call
\* still returns a summary built from it.
C3_FallbackIsStaticList ==
    (Called /\ ResolutionRaised) =>
        /\ locals.variant = "static"
        /\ ResolvedList = StaticList
        /\ result.outcome = "return"
        /\ Summary # Null
        /\ Summary.sender = KeysGet(MessageAccountKeys(StaticList, <<>>), 0)

C3_Witness ==
    /\ Called
    /\ ResolutionRaised
    /\ Len(StaticList) = 2
    /\ Message.accountKeysFromLookups # <<>>
    /\ ResolvedList = StaticList
    /\ Summary.sender = StaticList[1]

\* s is a prefix of t, position by position.
IsPrefix(s, t) == Len(s) <= Len(t) /\ \A i \in 1..Len(s) : s[i] = t[i]

\* The record with full resolution made to succeed.
FullyResolvable(t) ==
    [t EXCEPT !.transaction.message.resolvable = TRUE]

\* The native balances were captured from the balance arrays.
NativeCaptured == locals.preBalance # Null \/ locals.postBalance # Null

\* C4: under full resolution and under the static-only fallback alike, the
\* address the resolver places at index i is the ledger account whose
\* balances are preBalances[i] and postBalances[i]: the static-only list is
\* an index-preserving prefix of the fully resolved list, a target found
\* under fallback gets the native balances full resolution would give it,
\* and every index the target is found at lies inside both balance arrays.
C4_IndexAlignedWithBalances ==
    (Called /\ ~Absent(Message)) =>
        /\ IsPrefix(ResolvedList, LedgerAccounts(Message))
        /\ ~Absent(Message.staticAccountKeys) =>
              IsPrefix(KeysList(staticFallback(tx.transaction)),
                       KeysList(getAccountKeys(FullyResolvable(tx).transaction.message).value))
        /\ NativeCaptured =>
              /\ locals.accountIndex >= 0
              /\ locals.accountIndex < Len(tx.meta.preBalances.items)
              /\ locals.accountIndex < Len(tx.meta.postBalances.items)
              /\ LedgerAccounts(Message)[locals.accountIndex + 1] = Key(walletAddress)
              /\ locals.preBalance =
                    Num(tx.meta.preBalances.items[locals.accountIndex + 1])
              /\ locals.postBalance =
                    Num(tx.meta.postBalances.items[locals.accountIndex + 1])
        /\ (locals.variant = "static" /\ locals.accountIndex # -1
            /\ ~Absent(Message.staticAccountKeys)) =>
              LET full == extractLocals(FullyResolvable(tx), walletAddress)
              IN  /\ full.accountIndex = locals.accountIndex
                  /\ full.preBalance = locals.preBalance
                  /\ full.postBalance = locals.postBalance

C4_Witness ==
    /\ Called
    /\ ResolutionRaised
    /\ Message.accountKeysFromLookups # <<>>
    /\ locals.variant = "static"
    /\ locals.accountIndex = 1
    /\ NativeCaptured
    /\ locals.preBalance # locals.postBalance

\* The entries of a token-balance list the target owns, in list order.
OwnedBy(list, wallet) ==
    LET Owned(b) == b.owner = wallet
    IN  IF Absent(list) THEN <<>> ELSE SelectSeq(list.items, Owned)

\* Both token-balance lists are carried and each holds an entry of the target.
BothTokenEntriesMatched ==
    /\ ~Absent(tx.meta)
    /\ ~Absent(tx.meta.preTokenBalances)
    /\ ~Absent(tx.meta.postTokenBalances)
    /\ OwnedBy(tx.meta.preTokenBalances, walletAddress) # <<>>
    /\ OwnedBy(tx.meta.postTokenBalances, walletAddress) # <<>>

MatchedPre  == Head(OwnedBy(tx.meta.preTokenBalances, walletAddress))
MatchedPost == Head(OwnedBy(tx.meta.postTokenBalances, walletAddress))

\* The raw amount of a token entry; a missing field counts as 0.
RawAmountOf(entry) ==
    IF Absent(entry.uiTokenAmount) \/ Absent(entry.uiTokenAmount.amount) THEN 0
    ELSE Number(entry.uiTokenAmount.amount)

\* The decimals of a token entry; absent counts as 0.
DecimalsOf(entry) ==
    IF Absent(entry.uiTokenAmount) \/ Absent(entry.uiTokenAmount.decimals) THEN 0
    ELSE entry.uiTokenAmount.decimals.n

\* The native balances of the target's first ledger position were resolved.
NativeResolved == locals.preBalance # Null /\ locals.postBalance # Null

\* C5: whenever a pre and a post token entry of the target are both
\* matched, amount and assetId come from the token path (assetId is the
\* mint of the pre entry), whether or not the native balances resolved.
C5_TokenPathHasPriority ==
    (Called /\ BothTokenEntriesMatched) =>
        /\ locals.path = "token"
        /\ Summary.tokenMint = MatchedPre.mint
        /\ Summary.tokenMint # Text(SolSentinel)
        /\ Summary.amount =
              Dec(RawAmountOf(MatchedPost) - RawAmountOf(MatchedPre),
                  DecimalsOf(MatchedPre))

C5_Witness ==
    /\ Called
    /\ BothTokenEntriesMatched
    /\ NativeResolved
    /\ locals.postBalance.n - locals.preBalance.n # 0
    /\ Summary.tokenMint = Text("M2")
    /\ Summary.amount = Dec(-500000, 6)

\* C6: on the native path the amount is (postBalance - preBalance) / 10^9
\* with its sign kept (negative for an outflow, zero for no change, positive
\* for an inflow) and assetId is "SOL"; a balance falling by 10^9 lamports
\* gives -1.0.
C6_NativeAmountSigned ==
    (Called /\ locals.path = "native") =>
        LET i    == locals.accountIndex + 1
            pre  == tx.meta.preBalances.items[i]
            post == tx.meta.postBalances.items[i]
            a    == Summary.amount
        IN  /\ Summary.tokenMint = Text(SolSentinel)
            /\ a.kind = "decimal"
            /\ a.exp \in 0..NativeDecimals
            /\ a.num * Pow10(NativeDecimals - a.exp) = post - pre
            /\ (post < pre => a.num < 0)
            /\ (post = pre => a.num = 0)
            /\ (post > pre => a.num > 0)
            /\ (pre - post = LamportsPerSol => a.num = -1 /\ a.exp = 0)

C6_Witness ==
    /\ Called
    /\ locals.path = "native"
    /\ locals.preBalance = Num(2 * LamportsPerSol)
    /\ locals.postBalance = Num(LamportsPerSol)
    /\ Summary.amount.num = -1
    /\ Summary.amount.exp = 0
    /\ Summary.tokenMint = Text(SolSentinel)

\* C7: on the token path the amount is (postRaw - preRaw) / 10^decimals,
\* a missing raw amount counting as 0 on either side and decimals taken from
\* the pre entry, 0 when absent; "1000000" to "1500000" at 6 decimals is 0.5.
C7_TokenAmountScaled ==
    (Called /\ locals.path = "token") =>
        LET pre  == locals.preTokenBalance
            post == locals.postTokenBalance
            a    == Summary.amount
        IN  /\ a.kind = "decimal"
            /\ a.exp \in 0..DecimalsOf(pre)
            /\ a.num * Pow10(DecimalsOf(pre) - a.exp)
                  = RawAmountOf(post) - RawAmountOf(pre)
            /\ (/\ RawAmountOf(pre) = 1000000
                /\ RawAmountOf(post) = 1500000
                /\ DecimalsOf(pre) = 6) => (a.num = 5 /\ a.exp = 1)

C7_Witness ==
    /\ Called
    /\ locals.path = "token"
    /\ locals.preTokenBalance.uiTokenAmount = Ui(Str(Digits1000000), Num(6))
    /\ locals.postTokenBalance.uiTokenAmount = Ui(Str(Digits1500000), Num(6))
    /\ Summary.amount.num = 5
    /\ Summary.amount.exp = 1

\* A second case of C7: the raw amount and the decimals both missing.
C7_WitnessMissing ==
    /\ Called
    /\ locals.path = "token"
    /\ locals.preTokenBalance.uiTokenAmount = Undefined
    /\ locals.postTokenBalance.uiTokenAmount = Ui(Str(<<7>>), Num(2))
    /\ Summary.amount.num = 7
    /\ Summary.amount.exp = 0

\* C8: asset selection is a three-way exclusive choice: without both token
\* entries the native path is used exactly when both native balances are
\* non-null, and otherwise amount and assetId are both null; so amount is
\* null exactly when assetId is, and a non-null amount is a number.
C8_ThreeWayChoice ==
    Called =>
        /\ locals.path \in {"token", "native", "none"}
        /\ locals.path = "token" <=> BothTokenEntriesMatched
        /\ ~BothTokenEntriesMatched =>
              /\ locals.path = "native" <=> NativeResolved
              /\ locals.path = "native" => Summary.tokenMint = Text(SolSentinel)
              /\ locals.path = "none" =>
                    (Summary.amount = Null /\ Summary.tokenMint = Null)
        /\ Summary.amount = Null <=> Summary.tokenMint = Null
        /\ Summary.amount # Null => Summary.amount.kind = "decimal"

C8_Witness ==
    /\ Called
    /\ ~Absent(tx.meta)
    /\ ~BothTokenEntriesMatched
    /\ OwnedBy(tx.meta.preTokenBalances, walletAddress) # <<>>
    /\ ~Absent(tx.meta.postTokenBalances)
    /\ NativeResolved
    /\ locals.path = "native"
    /\ Summary.tokenMint = Text(SolSentinel)

\* A second case of C8: one token entry matched, no native balance, no amount.
C8_WitnessNone ==
    /\ Called
    /\ ~Absent(tx.meta)
    /\ OwnedBy(tx.meta.postTokenBalances, walletAddress) # <<>>
    /\ ~NativeResolved
    /\ Summary.amount = Null
    /\ Summary.tokenMint = Null

\* The compiled instructions of the record, in order.
Instructions ==
    IF Absent(Message) \/ Absent(Message.compiledInstructions) THEN <<>>
    ELSE Message.compiledInstructions.items

\* The positions of the instructions that reference at least two accounts.
MultiAccountPositions ==
    {k \in 1..Len(Instructions) :
        /\ ~Absent(Instructions[k].accountKeyIndexes)
        /\ Len(Instructions[k].accountKeyIndexes.items) >= 2}

FirstMultiAccountPosition ==
    CHOOSE k \in MultiAccountPositions : \A j \in MultiAccountPositions : k <= j

\* C9: receiver is the resolved address at the second account index of the
\* first instruction, in order, that references at least two accounts,
\* whatever later instructions hold; with no such instruction it is null.
\* (An index past the end of the resolved list names no address: receiver
\* is then undefined.)
C9_ReceiverHeuristic ==
    Called =>
        IF MultiAccountPositions = {}
        THEN Summary.receiver = Null
        ELSE LET index == Instructions[FirstMultiAccountPosition]
                              .accountKeyIndexes.items[2]
             IN  IF index < Len(ResolvedList)
                 THEN Summary.receiver = ResolvedList[index + 1]
                 ELSE Summary.receiver = Undefined

C9_Witness ==
    /\ Called
    /\ Instructions = <<Ix(Arr(<<1, 2, 0>>)), Ix(Arr(<<0, 1>>))>>
    /\ ResolvedList = <<Key("A"), Key("B"), Key("A")>>
    /\ Summary.receiver = Key("A")

\* A second case of C9: instructions, none with two accounts.
C9_WitnessNone ==
    /\ Called
    /\ Len(Instructions) = 2
    /\ MultiAccountPositions = {}
    /\ Summary.receiver = Null

\* C10: sender is the address at index 0 of the resolved list, whatever the
\* target address, and is null whenever the resolved list is empty.
C10_SenderIsFirstOrNull ==
    Called =>
        Summary.sender = IF ResolvedList = <<>> THEN Null ELSE ResolvedList[1]

\* The record with (empty) metadata put in place of absent metadata.
WithMetadata(t) == [t EXCEPT !.meta = Meta(Undefined, Undefined, Undefined, Undefined)]

\* C11: a present record without metadata gives amount = null and
\* assetId = null and captures no balance, while signature (the first
\* signature), explorerUrl ("https://solscan.io/tx/" then the signature),
\* slot and date are what they are with metadata present.
C11_NoMetadataKeepsIdentifiers ==
    (Called /\ Absent(tx.meta)) =>
        LET other == extractRelevantTxData(WithMetadata(tx), walletAddress).value
        IN  /\ Summary.amount = Null
            /\ Summary.tokenMint = Null
            /\ locals.preBalance = Null /\ locals.postBalance = Null
            /\ ~Truthy(locals.preTokenBalance) /\ ~Truthy(locals.postTokenBalance)
            /\ Summary.signature = tx.transaction.signatures[1]
            /\ Summary.solscanUrl = <<"https://solscan.io/tx/", Summary.signature>>
            /\ Summary.slot = tx.slot
            /\ Summary.signature = other.signature
            /\ Summary.solscanUrl = other.solscanUrl
            /\ Summary.slot = other.slot
            /\ Summary.date = other.date

C11_Witness ==
    /\ Called
    /\ Absent(tx.meta)
    /\ tx.transaction.signatures = <<Sig2, Sig1>>
    /\ tx.blockTime = Num(86400)
    /\ tx.slot = 8
    /\ Summary.signature = Sig2
    /\ Summary.slot = 8
    /\ Summary.date.year = 1970 /\ Summary.date.month = 1 /\ Summary.date.day = 2
    /\ Summary.amount = Null

\* C12: date is null when blockTime is absent, and for every present
\* blockTime, 0 included, it is the ISO-8601 string of blockTime * 1000 ms.
C12_DateFromBlockTime ==
    Called =>
        Summary.date = IF Absent(tx.blockTime) THEN Null
                       ELSE toISOString(tx.blockTime.n * 1000)

\* The positions (from 1) of the target in the resolved list.
TargetPositions ==
    {i \in 1..Len(ResolvedList) : ResolvedList[i] = Key(walletAddress)}

FirstTargetPosition ==
    CHOOSE i \in TargetPositions : \A j \in TargetPositions : i <= j

\* C13: the target is located at the lowest index of the resolved list
\* holding exactly its address; the native balances are captured from that
\* index only when it is found and both balance arrays exist, and stay null
\* otherwise (no metadata, target not listed, an array absent).
C13_NativeBalanceLookup ==
    Called =>
        IF /\ ~Absent(tx.meta)
           /\ TargetPositions # {}
           /\ ~Absent(tx.meta.preBalances)
           /\ ~Absent(tx.meta.postBalances)
        THEN /\ locals.accountIndex = FirstTargetPosition - 1
             /\ locals.preBalance = Num(tx.meta.preBalances.items[FirstTargetPosition])
             /\ locals.postBalance = Num(tx.meta.postBalances.items[FirstTargetPosition])
        ELSE /\ locals.preBalance = Null
             /\ locals.postBalance = Null
             /\ (~Absent(tx.meta) /\ TargetPositions = {}) => locals.accountIndex = -1

C13_Witness ==
    /\ Called
    /\ walletAddress = "A"
    /\ ResolvedList = <<Key("B"), Key("A"), Key("A")>>
    /\ locals.accountIndex = 1
    /\ locals.preBalance = Num(200000000)
    /\ locals.postBalance = Num(1800000000)

\* A second case of C13: the target is listed and one balance array is absent.
C13_WitnessArrayAbsent ==
    /\ Called
    /\ ~Absent(tx.meta)
    /\ TargetPositions # {}
    /\ ~Absent(tx.meta.preBalances)
    /\ Absent(tx.meta.postBalances)
    /\ locals.preBalance = Null

\* C14: token entries are matched only when metadata carries both the pre
\* and the post list; in each list the first entry, in list order, owned by
\* the target is used, and an owner without an entry gives an absent match,
\* not an error.
C14_TokenMatching ==
    Called =>
        IF /\ ~Absent(tx.meta)
           /\ ~Absent(tx.meta.preTokenBalances)
           /\ ~Absent(tx.meta.postTokenBalances)
        THEN LET pre  == OwnedBy(tx.meta.preTokenBalances, walletAddress)
                 post == OwnedBy(tx.meta.postTokenBalances, walletAddress)
             IN  /\ locals.preTokenBalance =
                       IF pre = <<>> THEN Undefined ELSE Head(pre)
                 /\ locals.postTokenBalance =
                       IF post = <<>> THEN Undefined ELSE Head(post)
                 /\ result.outcome = "return"
        ELSE /\ locals.preTokenBalance = Null
             /\ locals.postTokenBalance = Null

C14_Witness ==
    /\ Called
    /\ walletAddress = "A"
    /\ ~Absent(tx.meta)
    /\ ~Absent(tx.meta.preTokenBalances)
    /\ ~Absent(tx.meta.postTokenBalances)
    /\ Len(OwnedBy(tx.meta.preTokenBalances, "A")) = 2
    /\ OwnedBy(tx.meta.preTokenBalances, "A")[1].mint = Text("M2")
    /\ OwnedBy(tx.meta.preTokenBalances, "A")[2].mint = Text("M1")
    /\ locals.preTokenBalance.mint = Text("M2")
    /\ OwnedBy(tx.meta.postTokenBalances, "A") = <<>>
    /\ locals.postTokenBalance = Undefined

\* A second case of C14: the pre list holds an entry of the target and the
\* post list is absent, so nothing is matched.
C14_WitnessOneList ==
    /\ Called
    /\ ~Absent(tx.meta)
    /\ OwnedBy(tx.meta.preTokenBalances, walletAddress) # <<>>
    /\ Absent(tx.meta.postTokenBalances)
    /\ locals.preTokenBalance = Null

\* C15: with the addressing section (message) absent the resolver gives
\* an empty list without raising, and the summary has sender = null,
\* receiver = null and no native balance.
C15_NoMessage ==
    (Called /\ Absent(Message)) =>
        /\ ResolvedList = <<>>
        /\ locals.variant = "full"
        /\ result.outcome = "return"
        /\ Summary.sender = Null
        /\ Summary.receiver = Null
        /\ locals.preBalance = Null
        /\ locals.postBalance = Null
        /\ locals.path # "native"

C15_Witness ==
    /\ Called
    /\ Absent(Message)
    /\ ~Absent(tx.meta)
    /\ tx.meta.preBalances = Arr(Ramp(2))
    /\ tx.meta.postBalances = Arr(Down(2))
    /\ Summary.sender = Null
    /\ Summary.amount = Null

ToolDone    == hpc = "done"
IsFetchCall == request # Undefined /\ request.name = SolanaToolName

\* The getTransaction calls issued so far, in order.
TransactionFetches ==
    SelectSeq(issued, LAMBDA c : c.call = "getTransaction")

\* The positions whose fetch fulfilled with a record.
FetchedPositions ==
    {i \in 1..Len(fetches) :
        fetches[i].state = "fulfilled" /\ fetches[i].value # Null}

SomeFetchRejected == \E i \in 1..Len(fetches) : fetches[i] = Rejected

ReturnedSummaries ==
    /\ response.kind = "result"
    /\ response.isError = Undefined
    /\ response.transactions # Undefined

\* C17: the per-signature fetches are all issued before any of them is
\* awaited, one per signature, and a failed fetch is discarded: when a
\* getTransaction call has failed, the tool still ends by returning the
\* summaries of the transactions that were fetched.
C17_FailedFetchDiscarded ==
    /\ hpc = "awaitAll" =>
          /\ Len(fetches) = Len(sigs)
          /\ TransactionFetches = [i \in 1..Len(sigs) |->
                                      [call |-> "getTransaction", arg |-> sigs[i],
                                       limit |-> 0]]
    /\ (IsFetchCall /\ SomeFetchRejected /\ FetchedPositions # {}) =>
          /\ hpc \in {"awaitAll", "done"}
          /\ ToolDone =>
                /\ ReturnedSummaries
                /\ Len(response.transactions.items) = Cardinality(FetchedPositions)

FetchSucceeded == ToolDone /\ IsFetchCall /\ ReturnedSummaries

\* C18: the list fetch_solana_transactions returns, and its serialized
\* text, hold no null entry: a fetch that produced no record and a null from
\* the extractor are filtered out, and every record that was fetched
\* contributes exactly one summary.
C18_NoNullPresented ==
    FetchSucceeded =>
        /\ \A k \in 1..Len(response.transactions.items) :
              ~Absent(response.transactions.items[k])
        /\ response.text.kind = "json"
        /\ Len(response.text.items) = Len(response.transactions.items)
        /\ \A k \in 1..Len(response.text.items) :
              response.text.items[k] # Text("null")
        /\ Len(response.transactions.items) = Cardinality(FetchedPositions)
        /\ \A i \in FetchedPositions :
              Cardinality({k \in 1..Len(response.transactions.items) :
                  response.transactions.items[k].signature = Text(sigs[i])}) = 1

\* Two signatures, one fetch without a record: one summary is returned.
C18_Witness ==
    /\ FetchSucceeded
    /\ Len(sigs) = 2
    /\ \E i \in 1..Len(fetches) : fetches[i] = Fulfilled(Null)
    /\ Cardinality(FetchedPositions) = 1
    /\ Len(response.transactions.items) = 1

\* Every fetch without a record: the list returned is empty.
C18_WitnessAllNull ==
    /\ FetchSucceeded
    /\ Len(sigs) > 0
    /\ FetchedPositions = {}
    /\ response.transactions.items = <<>>

\* The arguments fail FetchSolanaTransactionsArgsSchema: no object, no
\* string for the wallet, a string shorter than 42 or longer than 44
\* characters, or a limit that is not a number.
FailsSchema(args) ==
    \/ Absent(args)
    \/ Absent(args.walletAddress)
    \/ args.walletAddress.kind # "text"
    \/ StringLength(args.walletAddress.s) < 42
    \/ StringLength(args.walletAddress.s) > 44
    \/ (args.limit # Undefined /\ args.limit.kind # "num")

NotAPublicKey(args) ==
    /\ ~FailsSchema(args)
    /\ args.walletAddress.s \notin {"A", "B", "K32"}

Malformed == IsFetchCall /\ (FailsSchema(request.args) \/ NotAPublicKey(request.args))

\* C19: when the arguments of fetch_solana_transactions fail the schema or
\* the wallet address is no public key, no signature or transaction fetch is
\* ever issued, extractRelevantTxData is never invoked, and the call ends in
\* an error.
C19_MalformedRejectedFirst ==
    Malformed =>
        /\ issued = <<>>
        /\ extractCalls = <<>>
        /\ hpc \in {"received", "done"}
        /\ ToolDone => (thrown # <<>> /\ response.isError = True)

\* A wallet string of an address's length that is no public key: rejected
\* by new PublicKey, with nothing issued.
C19_Witness ==
    /\ ToolDone
    /\ IsFetchCall
    /\ NotAPublicKey(request.args)
    /\ issued = <<>>
    /\ thrown = FailedToFetch(<<"Invalid public key input">>)

\* A public key whose address is shorter than the schema allows: rejected by
\* the schema.
C19_WitnessSchema ==
    /\ ToolDone
    /\ IsFetchCall
    /\ ~Absent(request.args)
    /\ request.args.walletAddress = Text("K32")
    /\ issued = <<>>
    /\ thrown = InvalidArguments(SolanaToolName)

KnownTools == {SolanaToolName} \cup {coralTools[i] : i \in 1..Len(coralTools)}

\* C20: the request handler never rejects.  Every request ends in a returned
\* result; when an error was raised while handling it, the result has
\* isError = true and a text that carries the error's message; and a name
\* outside the seven known tools is never forwarded to a tool handler.
C20_HandlerNeverRejects ==
    /\ ToolDone =>
          /\ response.kind = "result"
          /\ thrown # <<>> =>
                /\ response.isError = True
                /\ response.text.kind = "message"
                /\ Len(response.text.parts) > Len(thrown)
                /\ SubSeq(response.text.parts,
                          Len(response.text.parts) - Len(thrown) + 1,
                          Len(response.text.parts)) = thrown
          /\ thrown = <<>> => response.isError = Undefined
    /\ (request # Undefined /\ request.name \notin KnownTools) =>
          /\ forwarded = <<>>
          /\ ToolDone => thrown = <<"Unknown tool: ", request.name>>

\* An unknown name: answered with an error result, forwarded nowhere.
C20_Witness ==
    /\ ToolDone
    /\ request.name \notin KnownTools
    /\ forwarded = <<>>
    /\ response.kind = "result"
    /\ response.isError = True

\* A rejected RPC call inside handleSolanaTool: answered with an error result.
C20_WitnessRpc ==
    /\ ToolDone
    /\ IsFetchCall
    /\ SomeFetchRejected
    /\ response.kind = "result"
    /\ response.isError = True

\* A Coral request that is not ok: answered with an error result.
C20_WitnessCoral ==
    /\ ToolDone
    /\ Includes(coralTools, request.name)
    /\ forwarded = <<"handleCoralTool">>
    /\ thrown = CoralFailed(request.name, CoralApiError)
    /\ response.isError = True

\* The position of the fetch behind the k-th summary: the k-th of the
\* positions whose fetch gave a record, counted in the order of the signatures.
PositionOf(k) ==
    CHOOSE i \in FetchedPositions :
        Cardinality({j \in FetchedPositions : j < i}) = k - 1

AllFetchesCompleted ==
    \A i \in 1..Len(fetches) : fetches[i].state = "fulfilled"

\* C21: the summaries are in the relative order of the signatures that
\* getSignaturesForAddress returned, whatever order the getTransaction calls
\* completed in; each summary is computed from the record fetched for its
\* own signature; and the routine is first called when every fetch has
\* completed, on the fetched records in the order of their signatures.
C21_SummariesInSignatureOrder ==
    /\ FetchSucceeded =>
          /\ Len(response.transactions.items) = Cardinality(FetchedPositions)
          /\ \A k \in 1..Len(response.transactions.items) :
                /\ response.transactions.items[k].signature = Text(sigs[PositionOf(k)])
                /\ response.transactions.items[k] =
                      extractRelevantTxData(LedgerRecord(sigs[PositionOf(k)]),
                                            request.args.walletAddress.s).value
    /\ hpc \in {"received", "awaitSignatures", "awaitAll"} => extractCalls = <<>>
    /\ extractCalls # <<>> =>
          /\ AllFetchesCompleted
          /\ Len(extractCalls) = Cardinality(FetchedPositions)
          /\ \A k \in 1..Len(extractCalls) :
                extractCalls[k] = fetches[PositionOf(k)].value

\* The second fetch completed before the first, and the summaries are in
\* the order of the signatures.
C21_Witness ==
    /\ FetchSucceeded
    /\ sigs = <<"sig1", "sig2">>
    /\ completion = <<2, 1>>
    /\ Len(response.transactions.items) = 2
    /\ response.transactions.items[1].signature = Text("sig1")
    /\ response.transactions.items[2].signature = Text("sig2")

\* C22: on the token path the pre entry and the post entry the amount is
\* computed from carry the same mint, the one reported as tokenMint, so the
\* amount is the change of the target's balance of that one token.
C22_SameMintOnTokenPath ==
    (Called /\ locals.path = "token") =>
        /\ locals.preTokenBalance.mint = locals.postTokenBalance.mint
        /\ Summary.tokenMint = locals.postTokenBalance.mint

====
